---- MODULE Spec2Model ----
(***************************************************************************)
(* Model of NaratedVideoCreator: the text chunker and the synthesis driver *)
(* of src/src/tts_synthesizer.py and the media pairer / timeline assembler *)
(* of src/src/video_producer.py.                                           *)
(*                                                                         *)
(* Python strings are sequences of one-character strings, so that          *)
(* splitting, stripping, joining, formatting and parsing are computed and  *)
(* not assumed.                                                            *)
(***************************************************************************)
EXTENDS Integers, Sequences, FiniteSets, TLC

VARIABLES
    \* _split_text called on its own
    text,           \* argument `text`
    max_words,      \* argument `max_words`
    chunks,         \* the returned list
    split_pc,       \* "call" before the call, "returned" after it
    \* synthesize_directory and the two directories it works on
    txt_files,      \* text_dir:   stem |-> [text, mtime]
    out_files,      \* output_dir: file name |-> [content, mtime]
    now,            \* the file system's clock
    generated,      \* the list returned by the last run
    run_log,        \* one entry per output file the last run looked at
    pre_out,        \* output_dir as the last run found it
    \* create_video_from_directory
    image_dir,      \* names of the files of root_dir/image_sources
    audio_dir,      \* names of the files of root_dir/audio_sources
    clips,          \* the list `clips`: one handle per assembled clip
    final,          \* the concatenated clip: <<>> or <<handle>>
    video_files,    \* videos written under final_video
    video_pc        \* "call", "returned", "no_pairs" or "write_failed"

split_vars == <<text, max_words, chunks, split_pc>>
synth_vars == <<txt_files, out_files, now, generated, run_log, pre_out>>
video_vars == <<image_dir, audio_dir, clips, final, video_files, video_pc>>
vars == <<split_vars, synth_vars, video_vars>>

-----------------------------------------------------------------------------
(* Bounds *)

MaxTextLen == 5         \* every text of at most this many characters
MaxSentences == 3       \* sentence-structured texts: number of sentences
MaxSentenceWords == 3   \* sentence-structured texts: words per sentence
MaxWordsArg == 3        \* max_words ranges over 1..MaxWordsArg

-----------------------------------------------------------------------------
(* Characters and generic sequence helpers *)

Chars == {"a", "b", ".", " ", "\n", "\r"}

\* str.isspace for the characters that occur
IsSpace(c) == c \in {" ", "\n", "\r", "\t"}

\* the class [.!?] of the sentence regex
IsEnd(c) == c \in {".", "!", "?"}

\* The strings parts[lo..hi] with sep between them. The range is halved, so
\* that long lists need no deep recursion.
RECURSIVE JoinIn(_, _, _, _)
JoinIn(parts, sep, lo, hi) ==
    IF lo > hi THEN <<>>
    ELSE IF lo = hi THEN parts[lo]
    ELSE JoinIn(parts, sep, lo, (lo + hi) \div 2) \o sep
         \o JoinIn(parts, sep, (lo + hi) \div 2 + 1, hi)

\* sep.join(parts)
Join(parts, sep) == JoinIn(parts, sep, 1, Len(parts))

\* the concatenation of a list of lists
Flatten(ss) == Join(ss, <<>>)

\* s.strip(): from the first to the last character that is no whitespace
Strip(s) ==
    LET ink == {i \in 1..Len(s) : ~IsSpace(s[i])}
    IN  IF ink = {} THEN <<>>
        ELSE SubSeq(s, CHOOSE i \in ink : \A j \in ink : i <= j,
                       CHOOSE i \in ink : \A j \in ink : j <= i)

\* The pieces of s[lo..hi] between separators: the maximal runs of positions
\* i with ~sep[i], in order. The range is halved, and a run that crosses the
\* middle is put together again, so that long strings need no deep recursion.
RECURSIVE RunsIn(_, _, _, _)
RunsIn(s, sep, lo, hi) ==
    IF lo > hi THEN <<>>
    ELSE IF lo = hi THEN (IF sep[lo] THEN <<>> ELSE <<(<<s[lo]>>)>>)
    ELSE LET mid == (lo + hi) \div 2
             left == RunsIn(s, sep, lo, mid)
             right == RunsIn(s, sep, mid + 1, hi)
         IN  IF ~sep[mid] /\ ~sep[mid + 1]
             THEN SubSeq(left, 1, Len(left) - 1)
                  \o <<left[Len(left)] \o right[1]>>
                  \o Tail(right)
             ELSE left \o right

\* s.split(): the maximal runs of non-whitespace, in order
Words(s) == RunsIn(s, [i \in 1..Len(s) |-> IsSpace(s[i])], 1, Len(s))

-----------------------------------------------------------------------------
(* SpeechSynthesizer._split_text *)

\* The characters of s[lo..hi] at the positions i with ~drop[i]
RECURSIVE KeepIn(_, _, _, _)
KeepIn(s, drop, lo, hi) ==
    IF lo > hi THEN <<>>
    ELSE IF lo = hi THEN (IF drop[lo] THEN <<>> ELSE <<s[lo]>>)
    ELSE KeepIn(s, drop, lo, (lo + hi) \div 2)
         \o KeepIn(s, drop, (lo + hi) \div 2 + 1, hi)

\* text.replace("\r\n", "\n"): each "\r" that a "\n" follows goes
ReplaceCRLF(s) ==
    KeepIn(s, [i \in 1..Len(s) |-> s[i] = "\r" /\ i < Len(s) /\ s[i + 1] = "\n"],
           1, Len(s))

\* .replace("\r", "\n")
ReplaceCR(s) == [i \in 1..Len(s) |-> IF s[i] = "\r" THEN "\n" ELSE s[i]]

Normalize(s) == ReplaceCR(ReplaceCRLF(s))

\* the first position of the run of flagged positions that holds i
RunStart(flags, i) ==
    CHOOSE r \in 1..i :
        /\ \A k \in r..i : flags[k]
        /\ r = 1 \/ ~flags[r - 1]

\* the last position of that run
RunEnd(flags, i) ==
    CHOOSE e \in i..Len(flags) :
        /\ \A k \in i..e : flags[k]
        /\ e = Len(flags) \/ ~flags[e + 1]

\* normalized.split("\n\n") cuts at each non-overlapping "\n\n", left to
\* right: of a run of m newlines the first 2 * (m \div 2) are separators
BlankBreaks(s) ==
    LET newline == [i \in 1..Len(s) |-> s[i] = "\n"]
    IN  [i \in 1..Len(s) |->
            /\ newline[i]
            /\ LET r == RunStart(newline, i)
                   e == RunEnd(newline, i)
               IN  i - r < 2 * ((e - r + 1) \div 2)]

\* [f(p) for p in parts if f(p)] with f = strip
StripNonEmpty(parts) ==
    SelectSeq([i \in 1..Len(parts) |-> Strip(parts[i])], LAMBDA p : p # <<>>)

\* [p.strip() for p in normalized.split("\n\n") if p.strip()]; the empty
\* pieces between adjacent separators are among those the filter drops
Paragraphs(t) ==
    LET n == Normalize(t)
    IN  StripNonEmpty(RunsIn(n, BlankBreaks(n), 1, Len(n)))

\* re.split(r"(?<=[.!?])\s+", paragraph): a match starts at a whitespace
\* character that follows one of . ! ? and takes the whole whitespace run
SentenceBreaks(s) ==
    LET space == [i \in 1..Len(s) |-> IsSpace(s[i])]
    IN  [i \in 1..Len(s) |->
            /\ space[i]
            /\ LET r == RunStart(space, i)
               IN  r > 1 /\ IsEnd(s[r - 1])]

\* [s.strip() for s in re.split(...) if s.strip()]
Sentences(paragraph) ==
    StripNonEmpty(RunsIn(paragraph, SentenceBreaks(paragraph), 1, Len(paragraph)))

\* Windows with the final, shorter window left out
Windows_DropShort(words, mw) ==
    [k \in 1..(Len(words) \div mw) |->
        Join(SubSeq(words, (k - 1) * mw + 1, k * mw), <<" ">>)]

\* for i in range(0, n, max_words): chunks.append(" ".join(words[i : i + max_words]))
Windows(words, mw) ==
    [k \in 1..((Len(words) + mw - 1) \div mw) |->
        Join(SubSeq(words, (k - 1) * mw + 1,
                    IF k * mw < Len(words) THEN k * mw ELSE Len(words)),
             <<" ">>)]

\* The loop state: chunks, current_sentences, word_count
PackInit == [chunks |-> <<>>, current |-> <<>>, word_count |-> 0]

\* ClosesChunk with the incoming sentence's words left out of the sum
ClosesChunk_NoAdd(st, n, mw) == st.word_count > mw /\ st.current # <<>>

\* The test that closes the current chunk before a sentence that fits
ClosesChunk(st, n, mw) == st.word_count + n > mw /\ st.current # <<>>

\* One iteration of `for sentence in sentences`
PackSentence(st, sentence, mw) ==
    LET words == Words(sentence)
        n == Len(words)
    IN  IF n = 0 THEN st
        ELSE IF n > mw
        THEN [chunks |-> (IF st.current # <<>>
                          THEN Append(st.chunks, Join(st.current, <<" ">>))
                          ELSE st.chunks) \o Windows(words, mw),
              current |-> <<>>,
              word_count |-> 0]
        ELSE IF ClosesChunk(st, n, mw)
        THEN [chunks |-> Append(st.chunks, Join(st.current, <<" ">>)),
              current |-> <<sentence>>,
              word_count |-> n]
        ELSE [chunks |-> st.chunks,
              current |-> Append(st.current, sentence),
              word_count |-> st.word_count + n]

RECURSIVE PackSentences(_, _, _)
PackSentences(st, sentences, mw) ==
    IF sentences = <<>> THEN st
    ELSE PackSentences(PackSentence(st, Head(sentences), mw), Tail(sentences), mw)

\* `for paragraph in paragraphs`
RECURSIVE PackParagraphs(_, _, _)
PackParagraphs(st, paragraphs, mw) ==
    IF paragraphs = <<>> THEN st
    ELSE PackParagraphs(PackSentences(st, Sentences(Head(paragraphs)), mw),
                        Tail(paragraphs), mw)

\* _split_text(text, max_words)
SplitText(t, mw) ==
    LET st == PackParagraphs(PackInit, Paragraphs(t), mw)
    IN  IF st.current # <<>>
        THEN Append(st.chunks, Join(st.current, <<" ">>))
        ELSE st.chunks

-----------------------------------------------------------------------------
(* Input texts *)

RECURSIVE SeqsUpTo(_, _)
SeqsUpTo(S, n) ==
    IF n = 0 THEN {<<>>}
    ELSE LET shorter == SeqsUpTo(S, n - 1)
         IN  shorter \cup {Append(s, c) : s \in {x \in shorter : Len(x) = n - 1}, c \in S}

\* every text over Chars of at most MaxTextLen characters
CharTexts == SeqsUpTo(Chars, MaxTextLen)

\* the k-th word of a sentence-structured text; neighbours differ
WordAt(k) ==
    IF k % 3 = 1 THEN <<"a">> ELSE IF k % 3 = 2 THEN <<"b">> ELSE <<"a", "b">>

\* n words starting with word number first, then the terminator
SentenceOf(first, n, term) ==
    Join([k \in 1..n |-> WordAt(first + k - 1)], <<" ">>) \o term

Terminators == {<<>>, <<".">>}
Separators == {<<" ">>, <<"\n", "\n">>}

\* texts of k sentences that start with word number first
RECURSIVE SentenceTextsFrom(_, _)
SentenceTextsFrom(first, k) ==
    IF k = 0 THEN {<<>>}
    ELSE UNION {
           {SentenceOf(first, n, term) \o (IF rest = <<>> THEN <<>> ELSE sep \o rest) :
                term \in Terminators, sep \in Separators,
                rest \in SentenceTextsFrom(first + n, k - 1)}
           : n \in 1..MaxSentenceWords}

SentenceTexts == UNION {SentenceTextsFrom(1, k) : k \in 1..MaxSentences}

Texts == CharTexts \cup SentenceTexts

-----------------------------------------------------------------------------
(* Specification of a single call of _split_text *)

\* a directory with no file in it
EmptyDir == [p \in {} |-> <<>>]

SynthIdle ==
    /\ txt_files = EmptyDir /\ out_files = EmptyDir /\ now = 0
    /\ generated = <<>> /\ run_log = <<>> /\ pre_out = EmptyDir

VideoIdle ==
    /\ image_dir = {} /\ audio_dir = {} /\ clips = <<>>
    /\ final = <<>> /\ video_files = {} /\ video_pc = "call"

InitSplit ==
    /\ text \in Texts
    /\ max_words \in 1..MaxWordsArg
    /\ chunks = <<>>
    /\ split_pc = "call"
    /\ SynthIdle
    /\ VideoIdle

split_text ==
    /\ split_pc = "call"
    /\ chunks' = SplitText(text, max_words)
    /\ split_pc' = "returned"
    /\ UNCHANGED <<text, max_words, synth_vars, video_vars>>

NextSplit == split_text

SpecSplit == InitSplit /\ [][NextSplit]_vars

\* the words of a list of strings, string by string
WordsOfAll(ss) == Flatten([i \in 1..Len(ss) |-> Words(ss[i])])

\* the sentences _split_text iterates over, paragraph by paragraph
AllSentences(t) ==
    LET ps == Paragraphs(t)
    IN  Flatten([i \in 1..Len(ps) |-> Sentences(ps[i])])

\* C1: the words of the returned chunks, chunk by chunk in order, are exactly
\* the whitespace-separated words of the input text: none lost, duplicated
\* or reordered.
C1_WordsPreserved ==
    split_pc = "returned" => WordsOfAll(chunks) = Words(text)

\* C1 witness: a text of at least three words was split into several chunks,
\* one of which holds more than one word.
C1_Witness ==
    /\ split_pc = "returned"
    /\ Len(Words(text)) >= 3
    /\ Len(chunks) >= 2
    /\ \E i \in 1..Len(chunks) : Len(Words(chunks[i])) >= 2

\* C2: every returned chunk has at most max_words words.
C2_ChunkBound ==
    split_pc = "returned" =>
        \A i \in 1..Len(chunks) : Len(Words(chunks[i])) <= max_words

\* C2 witness: a sentence longer than max_words stood between two sentences
\* that fit, and the call returned.
C2_Witness ==
    /\ split_pc = "returned"
    /\ LET ss == AllSentences(text)
       IN  \E i \in 2..(Len(ss) - 1) :
              /\ Len(Words(ss[i])) > max_words
              /\ Len(Words(ss[i - 1])) <= max_words
              /\ Len(Words(ss[i + 1])) <= max_words

-----------------------------------------------------------------------------
(* File names *)

\* ord(c) for the characters of file names
CodePoint(c) ==
    CASE c = "-" -> 45 [] c = "." -> 46
      [] c = "0" -> 48 [] c = "1" -> 49 [] c = "2" -> 50 [] c = "3" -> 51
      [] c = "4" -> 52 [] c = "5" -> 53 [] c = "6" -> 54 [] c = "7" -> 55
      [] c = "8" -> 56 [] c = "9" -> 57
      [] c = "A" -> 65 [] c = "B" -> 66
      [] c = "a" -> 97 [] c = "b" -> 98 [] c = "g" -> 103 [] c = "n" -> 110
      [] c = "p" -> 112 [] c = "t" -> 116 [] c = "v" -> 118 [] c = "w" -> 119
      [] c = "x" -> 120

\* s < t for Python strings
RECURSIVE StrLess(_, _)
StrLess(s, t) ==
    IF t = <<>> THEN FALSE
    ELSE IF s = <<>> THEN TRUE
    ELSE IF Head(s) = Head(t) THEN StrLess(Tail(s), Tail(t))
    ELSE CodePoint(Head(s)) < CodePoint(Head(t))

\* sorted(S) for a set of distinct strings
RECURSIVE SortedStrings(_)
SortedStrings(S) ==
    IF S = {} THEN <<>>
    ELSE LET m == CHOOSE x \in S : \A y \in S \ {x} : StrLess(x, y)
         IN  <<m>> \o SortedStrings(S \ {m})

Digit(d) == <<"0", "1", "2", "3", "4", "5", "6", "7", "8", "9">>[d + 1]

\* str(i) for i >= 0
RECURSIVE Decimal(_)
Decimal(i) ==
    IF i < 10 THEN <<Digit(i)>> ELSE Decimal(i \div 10) \o <<Digit(i % 10)>>

\* Format02 without the padding: f"{idx}"
Format02_NoPad(i) == Decimal(i)

\* f"{idx:02d}"
Format02(i) ==
    IF Len(Decimal(i)) < 2 THEN <<"0">> \o Decimal(i) ELSE Decimal(i)

TxtExt == <<".", "t", "x", "t">>

\* the default of the parameter `suffix`
WavSuffix == <<".", "w", "a", "v">>

-----------------------------------------------------------------------------
(* SpeechSynthesizer.synthesize_directory *)

\* max_words at the call of _split_text. The call site passes 100; the model
\* scales it down so that texts of a few words give several chunks.
SynthMaxWords == 1

MaxClock == 1       \* the clock runs over 0..MaxClock
MaxTxtFiles == 2    \* text files in text_dir at any one time
MaxLongWords == 101 \* a single run: the text file has up to this many words

\* stems of the text files: plain, ending in "-<digits>", holding a "-"
SynthStems == {<<"a">>, <<"a", "-", "0", "1">>}

\* contents of the text files: blank, one word, two words in one sentence,
\* two sentences of one and two words
SynthTexts ==
    { <<"\n">>,
      <<"a">>,
      <<"a", " ", "b">>,
      <<"a", ".", " ", "b", " ", "a", "b">> }

\* dir with file `name` written as `file`
WriteFile(dir, name, file) == (name :> file) @@ dir

\* out_path of chunk number idx of count chunks (lines 192 and 213)
OutName(base_name, idx, count) ==
    IF count = 1 THEN base_name \o WavSuffix
    ELSE base_name \o <<"-">> \o Format02(idx) \o WavSuffix

\* UpToDate with < for <=
UpToDate_Strict(dir, out_path, txt_mtime) ==
    out_path \in DOMAIN dir /\ txt_mtime < dir[out_path].mtime

\* out_path.exists() and txt_mtime <= audio_mtime: the output is skipped
UpToDate(dir, out_path, txt_mtime) ==
    out_path \in DOMAIN dir /\ txt_mtime <= dir[out_path].mtime

\* The state of a run: the output directory, `generated`, and the log
RunInit(dir) == [dir |-> dir, generated |-> <<>>, log |-> <<>>]

\* One output file: skip it, or synthesize_to_file and generated.append
SynthOne(st, base_name, idx, cks, txt_mtime, clock) ==
    LET out_path == OutName(base_name, idx, Len(cks))
        existed == out_path \in DOMAIN st.dir
        Entry(w) == [stem |-> base_name, idx |-> idx, count |-> Len(cks),
                     path |-> out_path, chunk |-> cks[idx],
                     existed |-> existed, txt_mtime |-> txt_mtime,
                     out_mtime |-> IF existed THEN st.dir[out_path].mtime ELSE -1,
                     wrote |-> w]
    IN  IF UpToDate(st.dir, out_path, txt_mtime)
        THEN [st EXCEPT !.log = Append(@, Entry(FALSE))]
        ELSE [dir |-> WriteFile(st.dir, out_path,
                                [content |-> cks[idx], mtime |-> clock]),
              generated |-> Append(st.generated, out_path),
              log |-> Append(st.log, Entry(TRUE))]

\* `for idx, chunk_text in enumerate(chunks, start=1)` for idx = lo..hi, in
\* order; with one chunk it is the body of `if len(chunks) == 1`. The range
\* is halved to keep the recursion shallow, and the test on the log makes
\* TLC evaluate the first half before it starts on the second.
RECURSIVE SynthChunks(_, _, _, _, _, _, _)
SynthChunks(st, base_name, lo, hi, cks, txt_mtime, clock) ==
    IF lo > hi THEN st
    ELSE IF lo = hi THEN SynthOne(st, base_name, lo, cks, txt_mtime, clock)
    ELSE LET mid == (lo + hi) \div 2
             half == SynthChunks(st, base_name, lo, mid, cks, txt_mtime, clock)
         IN  IF Len(half.log) = Len(st.log) + (mid - lo + 1)
             THEN SynthChunks(half, base_name, mid + 1, hi, cks, txt_mtime, clock)
             ELSE half

\* The body of `for txt_path in sorted(text_dir.glob("*.txt"))`
SynthFile(st, base_name, file, clock) ==
    LET stripped == Strip(file.text)
    IN  IF stripped = <<>> THEN st
        ELSE LET cks == SplitText(stripped, SynthMaxWords)
             IN  SynthChunks(st, base_name, 1, Len(cks), cks, file.mtime, clock)

\* sorted(text_dir.glob("*.txt")) as the list of the files' stems
RECURSIVE SortedTxtStems(_)
SortedTxtStems(S) ==
    IF S = {} THEN <<>>
    ELSE LET m == CHOOSE x \in S :
                    \A y \in S \ {x} : StrLess(x \o TxtExt, y \o TxtExt)
         IN  <<m>> \o SortedTxtStems(S \ {m})

RECURSIVE SynthFiles(_, _, _, _)
SynthFiles(st, stems, files, clock) ==
    IF stems = <<>> THEN st
    ELSE SynthFiles(SynthFile(st, Head(stems), files[Head(stems)], clock),
                    Tail(stems), files, clock)

SplitIdle ==
    /\ text = <<>> /\ max_words = 1 /\ chunks = <<>> /\ split_pc = "call"

InitSynth == SplitIdle /\ SynthIdle /\ VideoIdle

\* A text file is written: created, or its content replaced
EditText(stem, t) ==
    /\ stem \in DOMAIN txt_files \/ Cardinality(DOMAIN txt_files) < MaxTxtFiles
    /\ txt_files' = WriteFile(txt_files, stem, [text |-> t, mtime |-> now])
    /\ generated' = <<>> /\ run_log' = <<>> /\ pre_out' = EmptyDir
    /\ UNCHANGED <<out_files, now>>
    /\ UNCHANGED <<split_vars, video_vars>>

\* Time passes
Tick ==
    /\ now < MaxClock
    /\ now' = now + 1
    /\ generated' = <<>> /\ run_log' = <<>> /\ pre_out' = EmptyDir
    /\ UNCHANGED <<txt_files, out_files>>
    /\ UNCHANGED <<split_vars, video_vars>>

\* synthesize_directory(text_dir, output_dir)
synthesize_directory ==
    LET st == SynthFiles(RunInit(out_files), SortedTxtStems(DOMAIN txt_files),
                         txt_files, now)
    IN  /\ txt_files # EmptyDir
        /\ out_files' = st.dir
        /\ generated' = st.generated
        /\ run_log' = st.log
        /\ pre_out' = out_files
        /\ UNCHANGED <<txt_files, now, split_vars, video_vars>>

NextSynth ==
    \/ \E stem \in SynthStems, t \in SynthTexts : EditText(stem, t)
    \/ Tick
    \/ synthesize_directory

SpecSynth == InitSynth /\ [][NextSynth]_vars

-----------------------------------------------------------------------------
(* The audio file names as create_video_from_directory reads them *)

\* Path(name).stem: the name up to its last ".", when that "." is neither
\* the first nor the last character
PathStem(name) ==
    IF \E j \in 1..Len(name) : name[j] = "."
    THEN LET i == CHOOSE j \in 1..Len(name) :
                    name[j] = "." /\ \A k \in (j + 1)..Len(name) : name[k] # "."
         IN  IF 1 < i /\ i < Len(name) THEN SubSeq(name, 1, i - 1) ELSE name
    ELSE name

\* c.isdigit() for an ASCII character
IsDigit(c) == c \in {"0", "1", "2", "3", "4", "5", "6", "7", "8", "9"}

\* s.isdigit(): not empty and all digits
IsDigitStr(s) == s # <<>> /\ \A i \in 1..Len(s) : IsDigit(s[i])

\* int(s) for a string of digits
RECURSIVE IntOf(_)
IntOf(s) ==
    IF s = <<>> THEN 0
    ELSE 10 * IntOf(SubSeq(s, 1, Len(s) - 1))
         + (CHOOSE d \in 0..9 : Digit(d) = s[Len(s)])

\* AudioKey that takes every stem whole
AudioKey_NoSplit(stem) == [base |-> stem, idx |-> 0]

\* base and idx of an audio file with this stem (lines 99 to 106)
AudioKey(stem) ==
    IF \E i \in 1..Len(stem) : stem[i] = "-"
    THEN LET i == CHOOSE j \in 1..Len(stem) :
                    stem[j] = "-" /\ \A k \in (j + 1)..Len(stem) : stem[k] # "-"
             base_candidate == SubSeq(stem, 1, i - 1)
             suffix == SubSeq(stem, i + 1, Len(stem))
         IN  IF IsDigitStr(suffix)
             THEN [base |-> base_candidate, idx |-> IntOf(suffix)]
             ELSE [base |-> stem, idx |-> 0]
    ELSE [base |-> stem, idx |-> 0]

-----------------------------------------------------------------------------
(* VideoProducer.create_video_from_directory *)

MaxImages == 3      \* files in image_sources
MaxAudios == 4      \* files in audio_sources

PngExt == <<".", "p", "n", "g">>

Named(stems, ext) == {stem \o ext : stem \in stems}

\* the files image_sources may hold
ImageNames ==
    Named({<<"a">>, <<"A">>, <<"B">>, <<"a", "-", "1">>}, PngExt)

\* the files audio_sources may hold: unsuffixed, suffixed with one digit, two
\* digits and a zero index, a suffix that is no number, and a stray text file
AudioNames ==
    Named({<<"a">>, <<"a", "-", "0">>, <<"a", "-", "1">>, <<"a", "-", "0", "1">>,
           <<"a", "-", "2">>, <<"a", "-", "1", "0">>, <<"A">>, <<"B">>,
           <<"B", "-", "1">>, <<"b">>, <<"a", "-", "b">>}, WavSuffix)
    \cup Named({<<"B">>}, TxtExt)

\* dir.glob("*" + ext)
Glob(dir, ext) ==
    {name \in dir :
        /\ Len(name) >= Len(ext)
        /\ SubSeq(name, Len(name) - Len(ext) + 1, Len(name)) = ext}

\* s.lower()
Lower(s) ==
    [i \in 1..Len(s) |->
        IF s[i] = "A" THEN "a" ELSE IF s[i] = "B" THEN "b" ELSE s[i]]

\* SortedOrders with the strings compared as they are
RECURSIVE SortedOrders_CaseSensitive(_)
SortedOrders_CaseSensitive(S) ==
    IF S = {} THEN {<<>>}
    ELSE LET first == {x \in S : \A y \in S : ~StrLess(y, x)}
         IN  UNION {{<<m>> \o rest : rest \in SortedOrders_CaseSensitive(S \ {m})}
                    : m \in first}

\* sorted(S, key=lambda s: s.lower()) for a set, or for a glob, whose order
\* of iteration is not fixed: every order of S that ascends in the key.
\* Strings with equal keys may come out either way round.
RECURSIVE SortedOrders(_)
SortedOrders(S) ==
    IF S = {} THEN {<<>>}
    ELSE LET first == {x \in S : \A y \in S : ~StrLess(Lower(y), Lower(x))}
         IN  UNION {{<<m>> \o rest : rest \in SortedOrders(S \ {m})} : m \in first}

\* image_map = {p.stem: p for p in image_files}
ImageMap(image_files) ==
    [stem \in {PathStem(p) : p \in image_files} |->
        CHOOSE p \in image_files : PathStem(p) = stem]

\* the (idx, p) of the loop over the audio files, with the base it goes under
AudioEntries(audio_files) ==
    [i \in 1..Len(audio_files) |->
        [base |-> AudioKey(PathStem(audio_files[i])).base,
         idx |-> AudioKey(PathStem(audio_files[i])).idx,
         name |-> audio_files[i]]]

\* audio_groups: base |-> its (idx, p) in the order they were appended
AudioGroups(audio_files) ==
    LET entries == AudioEntries(audio_files)
    IN  [base \in {entries[i].base : i \in 1..Len(entries)} |->
            SelectSeq(entries, LAMBDA e : e.base = base)]

\* SortedByIdx that leaves the list in the order of the file names
SortedByIdx_Unsorted(entries) == entries

\* sorted(entries, key=lambda t: t[0]): stable, so entries of equal idx keep
\* their order
RECURSIVE SortedByIdx(_)
SortedByIdx(entries) ==
    IF entries = <<>> THEN <<>>
    ELSE LET last == entries[Len(entries)]
             front == SortedByIdx(SubSeq(entries, 1, Len(entries) - 1))
             keep == Cardinality({i \in 1..Len(front) : front[i].idx <= last.idx})
         IN  SubSeq(front, 1, keep) \o <<last>> \o SubSeq(front, keep + 1, Len(front))

\* MatchedStems that pairs an image only with an audio file of the same stem
MatchedStems_SameStem(image_map, audio_groups) ==
    {stem \in DOMAIN image_map \cap DOMAIN audio_groups :
        \E i \in 1..Len(audio_groups[stem]) :
            PathStem(audio_groups[stem][i].name) = stem}

\* set(image_map.keys()) & set(audio_groups.keys())
MatchedStems(image_map, audio_groups) ==
    DOMAIN image_map \cap DOMAIN audio_groups

\* NoPairs that never raises
NoPairs_Never(common_stems) == FALSE

\* `if not common_stems`: FileNotFoundError is raised
NoPairs(common_stems) == common_stems = <<>>

\* the clips of one stem: one per audio chunk, in index order
ClipsOf(stem, image_map, audio_groups) ==
    LET chunk_list == SortedByIdx(audio_groups[stem])
    IN  [k \in 1..Len(chunk_list) |->
            [base |-> stem, image |-> image_map[stem],
             audio |-> chunk_list[k].name, idx |-> chunk_list[k].idx,
             closed |-> FALSE]]

\* `for stem in common_stems`: the list `clips`
AllClips(common_stems, image_map, audio_groups) ==
    Flatten([i \in 1..Len(common_stems) |->
                ClipsOf(common_stems[i], image_map, audio_groups)])

\* concatenate_videoclips(clips): the segments in the order of the list
Concatenate(clip_list) ==
    [segments |-> [i \in 1..Len(clip_list) |->
                      [image |-> clip_list[i].image, audio |-> clip_list[i].audio]],
     closed |-> FALSE]

\* c.close() for every clip of the list
CloseAll(clip_list) ==
    [i \in 1..Len(clip_list) |-> [clip_list[i] EXCEPT !.closed = TRUE]]

InitVideo ==
    /\ SplitIdle /\ SynthIdle
    /\ image_dir \in {d \in SUBSET ImageNames : Cardinality(d) <= MaxImages}
    /\ audio_dir \in {d \in SUBSET AudioNames : Cardinality(d) <= MaxAudios}
    /\ clips = <<>> /\ final = <<>> /\ video_files = {} /\ video_pc = "call"

\* create_video_from_directory(root_dir); write_videofile returns or raises
create_video_from_directory ==
    /\ video_pc = "call"
    /\ \E audio_files \in SortedOrders(Glob(audio_dir, WavSuffix)),
          write_ok \in BOOLEAN :
         LET image_map == ImageMap(Glob(image_dir, PngExt))
             audio_groups == AudioGroups(audio_files)
         IN  \E common_stems \in SortedOrders(MatchedStems(image_map, audio_groups)) :
               IF NoPairs(common_stems)
               THEN /\ video_pc' = "no_pairs"
                    /\ UNCHANGED <<clips, final, video_files>>
               ELSE LET clip_list == AllClips(common_stems, image_map, audio_groups)
                        joined == Concatenate(clip_list)
                    IN  IF write_ok
                        THEN /\ video_files' = {joined.segments}
                             /\ clips' = CloseAll(clip_list)
                             /\ final' = <<[joined EXCEPT !.closed = TRUE]>>
                             /\ video_pc' = "returned"
                        ELSE /\ video_files' = {}
                             /\ clips' = clip_list
                             /\ final' = <<joined>>
                             /\ video_pc' = "write_failed"
    /\ UNCHANGED <<image_dir, audio_dir, split_vars, synth_vars>>

NextVideo == create_video_from_directory

SpecVideo == InitVideo /\ [][NextVideo]_vars

-----------------------------------------------------------------------------
(* Specification of one run of synthesize_directory on one new text file *)

NamingStems == SynthStems \cup {<<"a", "-", "b">>}

NamingTexts == SynthTexts \cup {SentenceOf(1, n, <<".">>) : n \in 1..MaxLongWords}

InitNaming ==
    /\ SplitIdle /\ VideoIdle
    /\ \E stem \in NamingStems, t \in NamingTexts :
         txt_files = WriteFile(EmptyDir, stem, [text |-> t, mtime |-> 0])
    /\ out_files = EmptyDir /\ now = 0
    /\ generated = <<>> /\ run_log = <<>> /\ pre_out = EmptyDir

NextNaming == synthesize_directory

SpecNaming == InitNaming /\ [][NextNaming]_vars

-----------------------------------------------------------------------------
(* Claims about synthesize_directory *)

\* the entries of the log before entry number i that wrote the same path
EarlierWrites(i) ==
    {j \in 1..(i - 1) : run_log[j].path = run_log[i].path /\ run_log[j].wrote}

\* the paths of the entries that wrote, in order
WrittenPaths(log) ==
    LET w == SelectSeq(log, LAMBDA e : e.wrote)
    IN  [i \in 1..Len(w) |-> w[i].path]

\* C3: a run synthesizes an output file and appends it to the returned list
\* if and only if the file does not exist or the text file's mtime is
\* strictly greater than the output file's; otherwise the file is left as it
\* was and is not appended. A missing output file is no error: the run ends
\* with the file written.
C3_SkipRule ==
    /\ \A i \in 1..Len(run_log) :
         LET e == run_log[i]
         IN  /\ e.txt_mtime = txt_files[e.stem].mtime
             /\ EarlierWrites(i) = {} =>
                  /\ e.existed = (e.path \in DOMAIN pre_out)
                  /\ e.existed => e.out_mtime = pre_out[e.path].mtime
             /\ e.wrote = (~e.existed \/ e.txt_mtime > e.out_mtime)
             /\ e.wrote =>
                  /\ e.path \in DOMAIN out_files
                  /\ out_files[e.path].mtime = now
             /\ (~e.wrote /\ EarlierWrites(i) = {}) =>
                  \/ \E j \in (i + 1)..Len(run_log) :
                        run_log[j].path = e.path /\ run_log[j].wrote
                  \/ out_files[e.path] = pre_out[e.path]
    /\ generated = WrittenPaths(run_log)

\* C3 witness: one run skipped an up-to-date file, wrote a missing one and
\* rewrote one older than its text.
C3_Witness ==
    /\ \E i \in 1..Len(run_log) :
         /\ ~run_log[i].wrote
         /\ run_log[i].txt_mtime = run_log[i].out_mtime
    /\ \E i \in 1..Len(run_log) : run_log[i].wrote /\ ~run_log[i].existed
    /\ \E i \in 1..Len(run_log) :
         /\ run_log[i].wrote
         /\ run_log[i].existed
         /\ run_log[i].txt_mtime > run_log[i].out_mtime

\* the entries of the log for the text file with this stem, in order
EntriesOf(log, stem) == SelectSeq(log, LAMBDA e : e.stem = stem)

\* the chunks of the text file with this stem
ChunksOfFile(stem) == SplitText(Strip(txt_files[stem].text), SynthMaxWords)

\* the index part of path: what stands between stem and "-" and the suffix
IndexPart(path, stem) ==
    SubSeq(path, Len(stem) + 2, Len(path) - Len(WavSuffix))

\* path is stem, "-", some index part, and the suffix
HasIndexedShape(path, stem) ==
    /\ Len(path) > Len(stem) + 1 + Len(WavSuffix)
    /\ SubSeq(path, 1, Len(stem)) = stem
    /\ path[Len(stem) + 1] = "-"
    /\ SubSeq(path, Len(path) - Len(WavSuffix) + 1, Len(path)) = WavSuffix

\* the decimal numeral of i, with zeros in front up to two digits
PaddedToTwo(digits, i) ==
    /\ IsDigitStr(digits)
    /\ IntOf(digits) = i
    /\ Len(digits) >= 2
    /\ Len(digits) > 2 => digits[1] # "0"

\* a numeral of i of exactly two digits
ExactlyTwo(digits, i) ==
    /\ IsDigitStr(digits)
    /\ IntOf(digits) = i
    /\ Len(digits) = 2

\* the targets of the run are those of the chunk lists, chunk i going to
\* target i, and the index part of target i is the numeral of i padded to
\* two digits (or, with exact, a numeral of i of exactly two digits)
TargetsAre(exact) ==
    run_log # <<>> =>
        /\ DOMAIN out_files = {run_log[i].path : i \in 1..Len(run_log)}
        /\ \A stem \in DOMAIN txt_files :
             LET cks == ChunksOfFile(stem)
                 es == EntriesOf(run_log, stem)
             IN /\ Len(es) = Len(cks)
                /\ \A i \in 1..Len(es) :
                     /\ es[i].chunk = cks[i]
                     /\ es[i].path \in DOMAIN out_files
                     /\ out_files[es[i].path].content = cks[i]
                     /\ \A j \in 1..Len(es) : es[j].path = es[i].path => j = i
                     /\ IF Len(cks) = 1
                        THEN es[i].path = stem \o WavSuffix
                        ELSE /\ HasIndexedShape(es[i].path, stem)
                             /\ IF exact
                                THEN ExactlyTwo(IndexPart(es[i].path, stem), i)
                                ELSE PaddedToTwo(IndexPart(es[i].path, stem), i)

\* C4 (as amended): one chunk goes to {stem}{suffix}; k >= 2 chunks go to
\* {stem}-{index}{suffix} for index 1..k, the i-th chunk's text to the i-th
\* path, the index being the decimal numeral of i zero-padded to at least
\* two digits: two digits up to 99, the plain numeral from 100 on.
C4_TargetNames == TargetsAre(FALSE)

\* C4 as stated: the index always has exactly two digits.
C4_AsStated == TargetsAre(TRUE)

\* C4 witness: a run wrote the last of at least ten chunks of a text file,
\* so indices with and without a padding zero were formatted.
C4_Witness ==
    \E i \in 1..Len(run_log) :
        /\ run_log[i].count >= 10
        /\ run_log[i].idx = run_log[i].count
        /\ run_log[i].wrote

\* C10: every audio file name the driver produces is read back by the
\* pairer as base name = the text stem, with index 0 for the file of a
\* single chunk and index i for the file of chunk i.
C10_RoundTrip ==
    \A i \in 1..Len(run_log) :
        LET e == run_log[i]
            key == AudioKey(PathStem(e.path))
        IN  /\ key.base = e.stem
            /\ key.idx = (IF e.count = 1 THEN 0 ELSE e.idx)

\* path is named for the text file with this stem: {stem}{suffix}, or
\* {stem}-NN{suffix} with NN all digits
BelongsTo(path, stem) ==
    \/ path = stem \o WavSuffix
    \/ /\ HasIndexedShape(path, stem)
       /\ IsDigitStr(IndexPart(path, stem))

\* the audio files of the output directory named for this stem
AudioFilesOf(stem) == {p \in DOMAIN out_files : BelongsTo(p, stem)}

\* the names of the audio files of the chunks of the text file's content
ChunkFilesOf(stem) ==
    LET cks == ChunksOfFile(stem)
    IN  {OutName(stem, i, Len(cks)) : i \in 1..Len(cks)}

\* the names of the audio files of the chunks of all the text files
CurrentChunkFiles == UNION {ChunkFilesOf(stem) : stem \in DOMAIN txt_files}

\* C11: at the end of each run, whatever edits and runs came before it, the
\* audio files of a text stem ({stem}.wav and {stem}-NN.wav) are the files
\* named for the chunks of the text file's current content: each of those is
\* there, and no audio file of an earlier chunking, written before the edit
\* that advanced the text file's mtime, is left in the output directory. A
\* file that is named for a chunk of another text file (a-01.wav of a-01.txt,
\* beside a.txt) is not counted as left over.
C11_NoStaleAudio ==
    run_log # <<>> =>
        \A stem \in DOMAIN txt_files :
            /\ ChunkFilesOf(stem) \subseteq AudioFilesOf(stem)
            /\ \A p \in AudioFilesOf(stem) :
                 out_files[p].mtime < txt_files[stem].mtime =>
                     p \in CurrentChunkFiles

-----------------------------------------------------------------------------
(* Claims about create_video_from_directory *)

\* the positions of a "-" that only digits, and at least one, follow
SuffixCuts(stem) ==
    {i \in 1..(Len(stem) - 1) :
        stem[i] = "-" /\ \A k \in (i + 1)..Len(stem) : IsDigit(stem[k])}

\* the base name of an audio stem: the stem without a trailing -NN
DerivedBase(stem) ==
    IF SuffixCuts(stem) = {} THEN stem
    ELSE SubSeq(stem, 1, (CHOOSE i \in SuffixCuts(stem) : TRUE) - 1)

\* a file name without its four-character extension
Bare(name) == SubSeq(name, 1, Len(name) - 4)

ImageStemSet == {Bare(n) : n \in Glob(image_dir, PngExt)}

AudioBaseSet == {DerivedBase(Bare(n)) : n \in Glob(audio_dir, WavSuffix)}

Assembled == video_pc \in {"returned", "write_failed"}

\* C5: each audio group is played in ascending index order, and the
\* unsuffixed file of a base name is played before every suffixed file
\* x-NN.wav that shares its base name.
C5_PlayOrder ==
    \A i, j \in 1..Len(clips) :
        (i < j /\ clips[i].base = clips[j].base) =>
            /\ clips[i].idx <= clips[j].idx
            /\ ~(Bare(clips[i].audio) # clips[i].base
                 /\ Bare(clips[j].audio) = clips[j].base)

\* C6: the base names assembled are exactly those that are both an image
\* stem and a derived audio base name; when there is one, no error is
\* raised, whatever images and audio groups stay unmatched.
C6_Matched ==
    /\ Assembled =>
         /\ {clips[i].base : i \in 1..Len(clips)} = ImageStemSet \cap AudioBaseSet
         /\ \A i \in 1..Len(clips) :
              /\ clips[i].image = clips[i].base \o PngExt
              /\ DerivedBase(Bare(clips[i].audio)) = clips[i].base
    /\ (video_pc # "call" /\ ImageStemSet \cap AudioBaseSet # {}) => Assembled

\* C6 witness: a video was assembled although an image had no audio group
\* and an audio group had no image.
C6_Witness ==
    /\ video_pc = "returned"
    /\ clips # <<>>
    /\ ImageStemSet \ AudioBaseSet # {}
    /\ AudioBaseSet \ ImageStemSet # {}

\* C7: the timeline holds exactly one segment per audio file of every
\* matched base name; the segments of one base name stand together, the
\* base names ascend case-insensitively, and within a base name the chunk
\* indices ascend.
C7_Timeline ==
    Assembled =>
        /\ Len(final) = 1
        /\ final[1].segments =
             [i \in 1..Len(clips) |->
                 [image |-> clips[i].image, audio |-> clips[i].audio]]
        /\ {clips[i].audio : i \in 1..Len(clips)} =
             {n \in Glob(audio_dir, WavSuffix) :
                 DerivedBase(Bare(n)) \in ImageStemSet}
        /\ \A i, j \in 1..Len(clips) : clips[i].audio = clips[j].audio => i = j
        /\ \A i, j \in 1..Len(clips) :
             i < j =>
                /\ ~StrLess(Lower(clips[j].base), Lower(clips[i].base))
                /\ clips[i].base = clips[j].base =>
                     /\ clips[i].idx <= clips[j].idx
                     /\ \A k \in i..j : clips[k].base = clips[i].base
        /\ video_pc = "returned" => video_files = {final[1].segments}

\* C7 witness: a video of two base names was written, one of them with
\* several chunks.
C7_Witness ==
    /\ video_pc = "returned"
    /\ \E i, j \in 1..Len(clips) :
         /\ i < j /\ clips[i].base = clips[j].base /\ clips[i].idx < clips[j].idx
    /\ \E i, j \in 1..Len(clips) : clips[i].base # clips[j].base

\* C8: every clip of the list and the concatenated clip are released by the
\* time the call ends, whether write_videofile returned or raised.
C8_AllReleased ==
    Assembled =>
        /\ \A i \in 1..Len(clips) : clips[i].closed
        /\ \A i \in 1..Len(final) : final[i].closed

\* C9: when no image stem is an audio base name, the call fails with the
\* 'no matching pairs' error, no clip has been built and no video written.
C9_NoPairs ==
    (video_pc # "call" /\ ImageStemSet \cap AudioBaseSet = {}) =>
        /\ video_pc = "no_pairs"
        /\ clips = <<>>
        /\ final = <<>>
        /\ video_files = {}

\* C9 witness: the call failed with both directories holding files.
C9_Witness ==
    /\ video_pc = "no_pairs"
    /\ Glob(image_dir, PngExt) # {}
    /\ Glob(audio_dir, WavSuffix) # {}

====
